---------------------------- MODULE Spec2Model ----------------------------
(***************************************************************************)
(* State-machine model of the SEVIRI ingestion pipeline: the api-poller    *)
(* (discovery cycle, manifest insert, download enqueue), the downloader    *)
(* Celery task (download_file with its retry and failure paths) and the    *)
(* processor Celery task (process_file with cleanup), over the shared      *)
(* file_manifest table, the broker queues and the /raw directory tree.     *)
(* Times are minutes; directories are named by the nominal timestamp they  *)
(* are derived from.                                                       *)
(***************************************************************************)
EXTENDS Integers, Sequences, FiniteSets, TLC

\* ------------------------------------------------------------------ bounds
\* Longest search result the catalog returns in one cycle.
MaxResults == 2
\* Number of worker-lost events (a worker child killed while it holds a task).
MaxCrashes == 1
\* Largest clock value, in quarter hours, of the window specification.
MaxNowQuarters == 7
\* Largest configured polling.min_age_hours of the window specification.
MaxMinAgeHours == 2
\* Largest configured polling.lookback_minutes, in quarter hours.
MaxLookbackQuarters == 3
\* Number of poll() cycles started, over all pollers.
MaxCycles == 2

\* Largest attempt number for which the retry delay is tabulated.
MaxAttempt == 5

\* ------------------------------------------------------- program constants
\* max_retries of tasks.download_file.
MaxRetries == 3
\* The attempt number compared against in the failure path (attempt < 3).
AttemptLimit == 3
\* Default of polling.lookback_minutes.
DefaultLookbackMinutes == 30
\* Default of polling.min_age_hours.
DefaultMinAgeHours == 1
\* attempt passed by process_file when it marks PROCESSING.
ProcessingAttempt == 1

NULL == "NULL"
\* None for the optional attempt argument of the status updates.
NoAttempt == 0

\* The file_ids and nominal timestamps the catalog may hand out, and the two
\* callers of scheduled_poll (the scheduler job and POST /trigger-poll).
FileIds == {"X1", "X2"}
Timestamps == {"t0", "t1"}
Pollers == {"scheduled", "manual"}

Terminal == {"COMPLETE", "SKIPPED", "FAILED", "PROCESSING_FAILED"}

VARIABLES
    manifest,       \* file_manifest: file_id -> row (rows exist once inserted)
    poll,           \* per running poll(): its position and its new_files
    dl,             \* the download task message of each file_id and its position
    prQueued,       \* process task messages waiting in processing_queue
    prRunning,      \* process tasks between the PROCESSING write and their outcome
    prFinished,     \* process tasks that returned and await acknowledgement
    rawDisk,        \* /raw/<date>/<timestamp>_MSG_HRSEVIRI: absent, partial, complete
    outDisk,        \* /processed/<date>/<timestamp>_HRV_Paris.nc: absent, written
    transform,      \* history: how the latest transform of each file_id ended
    queryLog,       \* api_query_log: the rows inserted so far, oldest first
    cycles,         \* history: number of poll() cycles started
    lastCycle,      \* history: how the search of the latest cycle ended
    aborted,        \* history: the <<file_id, stage>> whose task hit the hard time limit
    sensing,        \* catalog: the products it holds, file_id -> nominal timestamp
    now,            \* wall clock (minutes)
    min_age_hours,  \* polling.min_age_hours
    lookback_minutes, \* polling.lookback_minutes
    window,         \* <<dtstart, dtend>> of the last collection.search call
    inserted,       \* history: rows created per file_id by log_new_file
    dlEnqueued,     \* history: tasks.download_file messages sent by the poller
    prEnqueued,     \* history: tasks.process_file messages sent per file_id
    fetchFailed,    \* history: download attempts of a file_id that failed
    crashes,        \* history: worker-lost events so far
    rediscovered,   \* history: file_ids found again while they had a manifest row
    raced,          \* history: file_ids two poll() runs held as new at the same time
    retry_countdown,\* history: countdown (s) of the latest retry of each download task
    lastFound,      \* history: number of products the latest search returned
    refound,        \* history: (file_id, status) pairs: a search returned the file_id while its row had the status
    sentPath,       \* history: file_path of the latest tasks.process_file message sent per file_id
    enqueued_count, \* enqueue_downloads' enqueued_count of each poller's latest cycle
    enqueueError    \* history: the latest iteration of enqueue_downloads hit a database error or a send_task exception

vars == <<manifest, poll, dl, prQueued, prRunning, prFinished, rawDisk, sensing,
          now, min_age_hours, lookback_minutes, window,
          inserted, dlEnqueued, prEnqueued, fetchFailed, crashes, rediscovered,
          outDisk, transform, queryLog, cycles, lastCycle, aborted, raced, retry_countdown, lastFound, refound, sentPath, enqueued_count, enqueueError>>

\* All sequences over S of length at most n.
RECURSIVE SeqsUpTo(_, _)
SeqsUpTo(S, n) ==
    IF n = 0 THEN {<<>>}
    ELSE LET shorter == SeqsUpTo(S, n - 1)
         IN  shorter \cup {Append(s, x) : s \in shorter, x \in S}

\* ------------------------------------------------------------ api-poller

\* Database.is_file_processed: SELECT 1 FROM file_manifest WHERE file_id = %s.
is_file_processed(m, file_id) == file_id \in DOMAIN m

\* The row log_new_file inserts: status 'QUEUED', every other column at its default.
NewRow ==
    [status |-> "QUEUED", download_attempt |-> 0, processing_attempt |-> 0,
     error_message |-> NULL, raw_file_path |-> NULL, skip_reason |-> NULL,
     output_file_path |-> NULL, quality_score |-> NULL, missing_data_pct |-> NULL,
     saturation_pct |-> NULL]

\* log_new_file with the fault of a plain INSERT, without ON CONFLICT DO NOTHING.
log_new_file_no_conflict(m, file_id, dbOk) ==
    IF dbOk
    THEN [ok |-> TRUE,
          m  |-> [f \in DOMAIN m \cup {file_id} |->
                    IF f = file_id THEN NewRow ELSE m[f]]]
    ELSE [ok |-> FALSE, m |-> m]

\* log_new_file with the fault of ON CONFLICT (file_id) DO UPDATE SET status =
\* 'QUEUED' in place of DO NOTHING.
log_new_file_upsert(m, file_id, dbOk) ==
    IF dbOk
    THEN [ok |-> TRUE,
          m  |-> [f \in DOMAIN m \cup {file_id} |->
                    IF f # file_id THEN m[f]
                    ELSE IF f \in DOMAIN m THEN [m[f] EXCEPT !.status = "QUEUED"]
                    ELSE NewRow]]
    ELSE [ok |-> FALSE, m |-> m]

\* log_new_file with the fault of reporting True after a database error.
log_new_file_error_ok(m, file_id, dbOk) ==
    IF file_id \notin DOMAIN m
    THEN [ok |-> TRUE,
          m  |-> IF dbOk
                 THEN [f \in DOMAIN m \cup {file_id} |->
                         IF f = file_id THEN NewRow ELSE m[f]]
                 ELSE m]
    ELSE [ok |-> FALSE, m |-> m]

\* log_new_file with the fault of reporting True also when the row existed.
log_new_file_conflict_ok(m, file_id, dbOk) ==
    IF dbOk
    THEN [ok |-> TRUE,
          m  |-> [f \in DOMAIN m \cup {file_id} |->
                    IF f \in DOMAIN m THEN m[f] ELSE NewRow]]
    ELSE [ok |-> FALSE, m |-> m]

\* Database.log_new_file: INSERT ... ON CONFLICT (file_id) DO NOTHING RETURNING id;
\* True only when a row was created, False on conflict or on a database error.
log_new_file(m, file_id, dbOk) ==
    IF dbOk /\ file_id \notin DOMAIN m
    THEN [ok |-> TRUE,
          m  |-> [f \in DOMAIN m \cup {file_id} |->
                    IF f = file_id THEN NewRow ELSE m[f]]]
    ELSE [ok |-> FALSE, m |-> m]

\* EUMETSATPoller.filter_new_files: keep the descriptors with no manifest row.
filter_new_files(m, file_list) ==
    SelectSeq(file_list, LAMBDA f : ~is_file_processed(m, f))

\* WindowEnd with the fault of taking min_age_hours as minutes.
WindowEnd_minutes(t, minAgeHours) == t - minAgeHours

\* dtend of query_new_files: now - timedelta(hours=min_age_hours).
WindowEnd(t, minAgeHours) == t - 60 * minAgeHours

\* dtstart of query_new_files: dtend - timedelta(minutes=lookback_minutes).
WindowStart(t, minAgeHours, lookbackMinutes) ==
    WindowEnd(t, minAgeHours) - lookbackMinutes

\* The product lists a search can return: the catalog's products, in any order,
\* possibly repeated.
SearchAnswers == SeqsUpTo(DOMAIN sensing, MaxResults)

\* log_api_query with the fault of keeping one row, overwritten by each cycle.
log_api_query_single_row(log, files_found, files_new, status) ==
    <<[status |-> status, files_found |-> files_found, files_new |-> files_new]>>

\* log_api_query with the fault of writing nothing.
query_log_unwritten(log, files_found, files_new, status) == log

\* log_api_query: one INSERT into api_query_log (the database is taken to be
\* reachable for this write).
log_api_query(log, files_found, files_new, status) ==
    Append(log, [status |-> status, files_found |-> files_found, files_new |-> files_new])

\* The api_query_log rows query_new_files leaves behind: none when the search
\* reports zero results (it returns before the log call), a SUCCESS row with
\* files_new = 0 when there are results, a FAILED row when the search raised.
query_new_files_log(log, searchOk, answer) ==
    IF ~searchOk THEN log_api_query(log, 0, 0, "FAILED")
    ELSE IF Len(answer) = 0 THEN log
    ELSE log_api_query(log, Len(answer), 0, "SUCCESS")

\* poll() up to the end of filter_new_files: query_new_files computes the window,
\* searches, writes the query log and returns [] on zero results or on an
\* exception; poll() returns when the list or the filtered list is empty.
PollQuery(p, searchOk, answer) ==
    /\ poll[p].pc = "idle"
    /\ cycles < MaxCycles
    /\ cycles' = cycles + 1
    /\ enqueued_count' = [enqueued_count EXCEPT ![p] = 0]
    /\ lastCycle' = IF ~searchOk THEN "failed"
                    ELSE IF Len(answer) = 0 THEN "empty" ELSE "products"
    /\ queryLog' = query_new_files_log(queryLog, searchOk, answer)
    /\ lastFound' = IF searchOk THEN Len(answer) ELSE 0
    /\ window' = <<WindowStart(now, min_age_hours, lookback_minutes),
                   WindowEnd(now, min_age_hours)>>
    /\ LET all_files == IF searchOk THEN answer ELSE <<>>
           new_files == filter_new_files(manifest, all_files)
       IN  /\ poll' = [poll EXCEPT ![p] =
                         IF new_files = <<>>
                         THEN [pc |-> "idle", pending |-> <<>>]
                         ELSE [pc |-> "enqueue", pending |-> new_files]]
           /\ rediscovered' = rediscovered \cup
                  {all_files[i] : i \in {j \in DOMAIN all_files :
                                             is_file_processed(manifest, all_files[j])}}
           /\ refound' = refound \cup
                  {<<all_files[i], manifest[all_files[i]].status>> :
                      i \in {j \in DOMAIN all_files :
                                 is_file_processed(manifest, all_files[j])}}
           /\ raced' = raced \cup
                  {new_files[i] : i \in {j \in DOMAIN new_files :
                      \E q \in Pollers \ {p} : \E k \in DOMAIN poll[q].pending :
                          poll[q].pending[k] = new_files[j]}}
    /\ UNCHANGED <<manifest, dl, prQueued, prRunning, prFinished, rawDisk, sensing,
                   now, min_age_hours, lookback_minutes,
                   inserted, dlEnqueued, prEnqueued, fetchFailed, crashes, outDisk, transform, aborted, retry_countdown, sentPath, enqueueError>>

\* RestOfLoop with the fault of a try around the whole loop: an exception ends it.
RestOfLoop_abort(rest, failed) == IF failed THEN <<>> ELSE rest

\* The for loop of enqueue_downloads has its try/except inside the body, and
\* log_new_file returns False on a database error: after an iteration the
\* loop goes on with the remaining descriptors, failed or not.
RestOfLoop(rest, failed) == rest

\* One iteration of the loop of enqueue_downloads: insert first, send the
\* download task only when the insert created the row; an exception of
\* send_task is caught and logged.
PollEnqueue(p, dbOk, sendOk) ==
    /\ poll[p].pc = "enqueue"
    /\ LET file_id == Head(poll[p].pending)
           rest    == Tail(poll[p].pending)
           ins     == log_new_file(manifest, file_id, dbOk)
           sent    == ins.ok /\ sendOk
           failed  == ~dbOk \/ (ins.ok /\ ~sendOk)
       IN  /\ manifest' = ins.m
           /\ inserted' = [inserted EXCEPT ![file_id] = @ + (IF ins.ok THEN 1 ELSE 0)]
           /\ dl' = IF sent
                    THEN [dl EXCEPT ![file_id] = [st |-> "queued", retries |-> 0]]
                    ELSE dl
           /\ dlEnqueued' = [dlEnqueued EXCEPT ![file_id] = @ + (IF sent THEN 1 ELSE 0)]
           /\ rediscovered' = IF is_file_processed(manifest, file_id)
                              THEN rediscovered \cup {file_id} ELSE rediscovered
           /\ enqueued_count' = [enqueued_count EXCEPT ![p] = @ + (IF sent THEN 1 ELSE 0)]
           /\ enqueueError' = failed
           /\ poll' = [poll EXCEPT ![p] =
                         IF RestOfLoop(rest, failed) = <<>>
                         THEN [pc |-> "idle", pending |-> <<>>]
                         ELSE [pc |-> "enqueue", pending |-> RestOfLoop(rest, failed)]]
    /\ UNCHANGED <<prQueued, prRunning, prFinished, rawDisk, sensing,
                   now, min_age_hours, lookback_minutes, window,
                   prEnqueued, fetchFailed, crashes, outDisk, transform,
                   queryLog, cycles, lastCycle, aborted, raced, retry_countdown, lastFound, refound, sentPath>>

\* ------------------------------------------------------------- downloader

\* output_dir of download_file: /raw/<Y/m/d>/<Ymd_HMS>_MSG_HRSEVIRI, a function of
\* the task's timestamp alone.
OutputDir(file_id) == sensing[file_id]

\* update_download_status with the fault of not storing the error message.
update_download_status_no_message(m, file_id, status, attempt, error_message, file_path) ==
    IF file_id \notin DOMAIN m THEN m
    ELSE [m EXCEPT ![file_id] =
            [@ EXCEPT !.status = status,
                      !.download_attempt = IF attempt # NoAttempt THEN attempt ELSE @,
                      !.raw_file_path = IF file_path # NULL THEN file_path ELSE @]]

\* downloader Database.update_download_status: UPDATE file_manifest SET status,
\* and the supplied columns, WHERE file_id; no row, no change.
update_download_status(m, file_id, status, attempt, error_message, file_path) ==
    IF file_id \notin DOMAIN m THEN m
    ELSE [m EXCEPT ![file_id] =
            [@ EXCEPT !.status = status,
                      !.download_attempt = IF attempt # NoAttempt THEN attempt ELSE @,
                      !.error_message = IF error_message # NULL THEN error_message ELSE @,
                      !.raw_file_path = IF file_path # NULL THEN file_path ELSE @]]

\* os.makedirs(output_dir, exist_ok=True).
makedirs(disk, dir) ==
    IF disk[dir] = "absent" THEN [disk EXCEPT ![dir] = "partial"] ELSE disk

\* downloader/tasks.py imports os, time, requests, eumdac, ... but not shutil.
ShutilImported == FALSE

\* The removal step with the fault of being left out of the except blocks.
RemovePartial_skipped(disk, dir) == [raised |-> FALSE, disk |-> disk]

\* "if os.path.exists(output_dir): shutil.rmtree(output_dir)" of the two except
\* blocks of download_file: the name shutil is unbound in that module, so the
\* call raises NameError whenever the directory exists.
RemovePartial(disk, dir) ==
    IF disk[dir] = "absent" THEN [raised |-> FALSE, disk |-> disk]
    ELSE IF ShutilImported
         THEN [raised |-> FALSE, disk |-> [disk EXCEPT ![dir] = "absent"]]
         ELSE [raised |-> TRUE, disk |-> disk]

\* on_failure with the fault of recording nothing.
on_failure_unrecorded(m, file_id, exc) == m

\* DownloadTask.on_failure: the task ended with an exception other than Retry.
on_failure(m, file_id, exc) ==
    update_download_status(m, file_id, "FAILED", NoAttempt, exc, NULL)

\* The default of config.get('download.retry_delay_seconds', ...), in seconds.
retry_delays == <<60, 300, 900>>

\* No retry was scheduled.
NoCountdown == 0

min(a, b) == IF a <= b THEN a ELSE b

\* countdown with the fault of indexing by attempt instead of attempt - 1.
countdown_off_by_one(attempt) ==
    retry_delays[min(attempt, Len(retry_delays) - 1) + 1]

\* countdown = retry_delays[min(attempt - 1, len(retry_delays) - 1)]; Python
\* indexes from 0, Sequences from 1.
countdown(attempt) ==
    retry_delays[min(attempt - 1, Len(retry_delays) - 1) + 1]

\* Task.retry with the fault of never refusing.
RetryAllowed_unbounded(retries) == TRUE

\* Task.retry: re-publish with retries + 1 unless that exceeds max_retries, in
\* which case the exception given as exc is raised instead.
RetryAllowed(retries) == retries + 1 <= MaxRetries

\* "except Exception" of download_file (lines 274-314), followed by what Celery
\* does with the way the task ended. Result: the manifest, the disk, and the
\* task message afterwards.
ExceptException(m, disk, file_id, retries) ==
    LET attempt == retries + 1
        rm      == RemovePartial(disk, OutputDir(file_id))
    IN  IF rm.raised
        THEN [m |-> on_failure(m, file_id, "NameError"), disk |-> rm.disk,
              task |-> [st |-> "none", retries |-> retries], countdown |-> NoCountdown]
        ELSE IF attempt < AttemptLimit
        THEN [m |-> update_download_status(m, file_id, "RETRY", NoAttempt, "Download error", NULL),
              disk |-> rm.disk,
              task |-> [st |-> "delayed", retries |-> retries + 1],
              countdown |-> countdown(retries + 1)]
        ELSE [m |-> update_download_status(m, file_id, "FAILED", NoAttempt,
                                           "Max retries reached", NULL),
              disk |-> rm.disk,
              task |-> [st |-> "none", retries |-> retries], countdown |-> NoCountdown]

\* "except SoftTimeLimitExceeded" of download_file (lines 257-272), likewise.
ExceptSoftTimeLimit(m, disk, file_id, retries) ==
    LET rm == RemovePartial(disk, OutputDir(file_id))
        m1 == update_download_status(m, file_id, "RETRY", NoAttempt, "Download timed out", NULL)
    IN  IF rm.raised
        THEN [m |-> on_failure(m, file_id, "NameError"), disk |-> rm.disk,
              task |-> [st |-> "none", retries |-> retries], countdown |-> NoCountdown]
        ELSE IF RetryAllowed(retries)
        THEN [m |-> m1, disk |-> rm.disk,
              task |-> [st |-> "delayed", retries |-> retries + 1],
              countdown |-> countdown(retries + 1)]
        ELSE [m |-> on_failure(m1, file_id, "SoftTimeLimitExceeded"), disk |-> rm.disk,
              task |-> [st |-> "none", retries |-> retries], countdown |-> NoCountdown]

\* download_file up to the start of the fetch: a worker takes the message (a new
\* one, a redelivered one, or a retry whose countdown has passed), marks
\* DOWNLOADING with attempt = retries + 1 and creates the output directory.
\* update_download_status catches a database error, rolls back and returns
\* False; download_file does not read the result (dbOk = FALSE: the row is as
\* before and the task goes on).
DownloadStartDb(file_id, dbOk) ==
    /\ dl[file_id].st \in {"queued", "delayed"}
    /\ manifest' = IF dbOk
                   THEN update_download_status(manifest, file_id, "DOWNLOADING",
                                               dl[file_id].retries + 1, NULL, NULL)
                   ELSE manifest
    /\ rawDisk' = makedirs(rawDisk, OutputDir(file_id))
    /\ dl' = [dl EXCEPT ![file_id].st = "fetching"]
    /\ UNCHANGED <<poll, prQueued, prRunning, prFinished, sensing,
                   now, min_age_hours, lookback_minutes, window,
                   inserted, dlEnqueued, prEnqueued, fetchFailed, crashes, rediscovered, outDisk, transform,
                   queryLog, cycles, lastCycle, aborted, raced, retry_countdown, lastFound, refound, sentPath, enqueued_count, enqueueError>>

DownloadStart(file_id) == DownloadStartDb(file_id, TRUE)

\* The success path of download_file (lines 206-247): the product is written in
\* the directory, the row is marked DOWNLOADED with the directory as raw path,
\* and tasks.process_file is sent with file_path = output_dir; the task has not
\* returned yet. A failed DOWNLOADED write (dbOk = FALSE) is swallowed by
\* update_download_status and the task is sent all the same.
DownloadSucceedDb(file_id, dbOk) ==
    /\ dl[file_id].st = "fetching"
    /\ rawDisk[OutputDir(file_id)] # "absent"
    /\ rawDisk' = [rawDisk EXCEPT ![OutputDir(file_id)] = "complete"]
    /\ manifest' = IF dbOk
                   THEN update_download_status(manifest, file_id, "DOWNLOADED",
                                               NoAttempt, NULL, OutputDir(file_id))
                   ELSE manifest
    /\ prQueued' = [prQueued EXCEPT ![file_id] = @ + 1]
    /\ sentPath' = [sentPath EXCEPT ![file_id] = OutputDir(file_id)]
    /\ prEnqueued' = [prEnqueued EXCEPT ![file_id] = @ + 1]
    /\ dl' = [dl EXCEPT ![file_id].st = "sent"]
    /\ UNCHANGED <<poll, prRunning, prFinished, sensing,
                   now, min_age_hours, lookback_minutes, window,
                   inserted, dlEnqueued, fetchFailed, crashes, rediscovered, outDisk, transform,
                   queryLog, cycles, lastCycle, aborted, raced, retry_countdown, lastFound, refound, enqueued_count, enqueueError>>

DownloadSucceed(file_id) == DownloadSucceedDb(file_id, TRUE)

\* download_file returns its result and the worker acknowledges the message.
DownloadAck(file_id) ==
    /\ dl[file_id].st = "sent"
    /\ dl' = [dl EXCEPT ![file_id].st = "none"]
    /\ UNCHANGED <<manifest, poll, prQueued, prRunning, prFinished, rawDisk, sensing,
                   now, min_age_hours, lookback_minutes, window,
                   inserted, dlEnqueued, prEnqueued, fetchFailed, crashes, rediscovered, outDisk, transform,
                   queryLog, cycles, lastCycle, aborted, raced, retry_countdown, lastFound, refound, sentPath, enqueued_count, enqueueError>>

\* The fetch raises (network or IO error, product not found): except Exception.
DownloadError(file_id) ==
    /\ dl[file_id].st = "fetching"
    /\ LET r == ExceptException(manifest, rawDisk, file_id, dl[file_id].retries)
       IN  /\ manifest' = r.m
           /\ rawDisk' = r.disk
           /\ dl' = [dl EXCEPT ![file_id] = r.task]
           /\ retry_countdown' = IF r.task.st = "delayed"
                                 THEN [retry_countdown EXCEPT ![file_id] = r.countdown]
                                 ELSE retry_countdown
    /\ fetchFailed' = [fetchFailed EXCEPT ![file_id] = @ + 1]
    /\ UNCHANGED <<poll, prQueued, prRunning, prFinished, sensing,
                   now, min_age_hours, lookback_minutes, window,
                   inserted, dlEnqueued, prEnqueued, crashes, rediscovered, outDisk, transform,
                   queryLog, cycles, lastCycle, aborted, raced, lastFound, refound, sentPath, enqueued_count, enqueueError>>

\* The soft time limit fires during the fetch: except SoftTimeLimitExceeded.
DownloadSoftTimeout(file_id) ==
    /\ dl[file_id].st = "fetching"
    /\ LET r == ExceptSoftTimeLimit(manifest, rawDisk, file_id, dl[file_id].retries)
       IN  /\ manifest' = r.m
           /\ rawDisk' = r.disk
           /\ dl' = [dl EXCEPT ![file_id] = r.task]
           /\ retry_countdown' = IF r.task.st = "delayed"
                                 THEN [retry_countdown EXCEPT ![file_id] = r.countdown]
                                 ELSE retry_countdown
    /\ fetchFailed' = [fetchFailed EXCEPT ![file_id] = @ + 1]
    /\ UNCHANGED <<poll, prQueued, prRunning, prFinished, sensing,
                   now, min_age_hours, lookback_minutes, window,
                   inserted, dlEnqueued, prEnqueued, crashes, rediscovered, outDisk, transform,
                   queryLog, cycles, lastCycle, aborted, raced, lastFound, refound, sentPath, enqueued_count, enqueueError>>

\* task_acks_late with task_reject_on_worker_lost: the worker child holding the
\* download task is lost before the acknowledgement, the message is requeued
\* with the retries it carried.
DownloadWorkerLost(file_id) ==
    /\ crashes < MaxCrashes
    /\ dl[file_id].st \in {"fetching", "sent"}
    /\ dl' = [dl EXCEPT ![file_id].st = "queued"]
    /\ crashes' = crashes + 1
    /\ UNCHANGED <<manifest, poll, prQueued, prRunning, prFinished, rawDisk, sensing,
                   now, min_age_hours, lookback_minutes, window,
                   inserted, dlEnqueued, prEnqueued, fetchFailed, rediscovered, outDisk, transform,
                   queryLog, cycles, lastCycle, aborted, raced, retry_countdown, lastFound, refound, sentPath, enqueued_count, enqueueError>>

\* -------------------------------------------------------------- processor

\* update_processing_status with the fault of writing every column of the
\* statement, supplied or not.
update_processing_status_all_columns(m, file_id, status, attempt, error_message, skip_reason, output_path, quality_score, missing_data_pct, saturation_pct) ==
    IF file_id \notin DOMAIN m THEN m
    ELSE [m EXCEPT ![file_id] =
            [@ EXCEPT !.status = status,
                      !.processing_attempt = attempt,
                      !.error_message = error_message,
                      !.skip_reason = skip_reason,
                      !.output_file_path = output_path,
                      !.quality_score = quality_score,
                      !.missing_data_pct = missing_data_pct,
                      !.saturation_pct = saturation_pct]]

\* processor Database.update_processing_status: UPDATE file_manifest SET status,
\* and the supplied columns, WHERE file_id.
update_processing_status(m, file_id, status, attempt, error_message, skip_reason, output_path, quality_score, missing_data_pct, saturation_pct) ==
    IF file_id \notin DOMAIN m THEN m
    ELSE [m EXCEPT ![file_id] =
            [@ EXCEPT !.status = status,
                      !.processing_attempt = IF attempt # NoAttempt THEN attempt ELSE @,
                      !.error_message = IF error_message # NULL THEN error_message ELSE @,
                      !.skip_reason = IF skip_reason # NULL THEN skip_reason ELSE @,
                      !.output_file_path = IF output_path # NULL THEN output_path ELSE @,
                      !.quality_score = IF quality_score # NULL THEN quality_score ELSE @,
                      !.missing_data_pct =
                          IF missing_data_pct # NULL THEN missing_data_pct ELSE @,
                      !.saturation_pct =
                          IF saturation_pct # NULL THEN saturation_pct ELSE @]]

\* cleanup_file with the fault of returning without removing anything.
cleanup_file_kept(disk, filepath) == disk

\* cleanup_file: shutil.rmtree of the directory when it is one.
cleanup_file(disk, filepath) == [disk EXCEPT ![filepath] = "absent"]

\* process_file up to the transform: a worker takes a message and marks PROCESSING.
\* update_processing_status catches a database error and returns False, which
\* process_file does not read (dbOk = FALSE).
ProcessStartDb(file_id, dbOk) ==
    /\ prQueued[file_id] > 0
    /\ prQueued' = [prQueued EXCEPT ![file_id] = @ - 1]
    /\ prRunning' = [prRunning EXCEPT ![file_id] = @ + 1]
    /\ manifest' = IF dbOk
                   THEN update_processing_status(manifest, file_id, "PROCESSING",
                            ProcessingAttempt, NULL, NULL, NULL, NULL, NULL, NULL)
                   ELSE manifest
    /\ UNCHANGED <<poll, dl, prFinished, rawDisk, sensing,
                   now, min_age_hours, lookback_minutes, window,
                   inserted, dlEnqueued, prEnqueued, fetchFailed, crashes, rediscovered, outDisk, transform,
                   queryLog, cycles, lastCycle, aborted, raced, retry_countdown, lastFound, refound, sentPath, enqueued_count, enqueueError>>

ProcessStart(file_id) == ProcessStartDb(file_id, TRUE)

\* generate_output_path(timestamp): the output file name is built from the
\* nominal timestamp alone.
generate_output_path(file_id) == sensing[file_id]

\* write_netcdf: the output file exists afterwards (an existing one is replaced).
write_netcdf(disk, output_path) == [disk EXCEPT ![output_path] = "written"]

\* The ways the transform of process_file ends: all steps done; the quality
\* gate decides to skip (missing data or solar zenith over the threshold);
\* QualityAssessment.assess catches an exception of its own checks and returns
\* skip = True with reason QUALITY_CHECK_ERROR; an exception reaches
\* process_file; the soft time limit reaches process_file.
Outcomes == {"complete", "skip", "quality_error", "error", "soft_timeout"}

\* OutcomeStatus with the fault of dropping the error message of a failure.
OutcomeStatus_no_message(outcome, output_path) ==
    [status |-> CASE outcome = "complete" -> "COMPLETE"
                  [] outcome \in {"skip", "quality_error"} -> "SKIPPED"
                  [] OTHER -> "PROCESSING_FAILED",
     msg |-> NULL,
     skip_reason |-> CASE outcome = "skip" -> "NIGHTTIME_IMAGE"
                       [] outcome = "quality_error" -> "QUALITY_CHECK_ERROR"
                       [] OTHER -> NULL,
     output_path |-> IF outcome = "complete" THEN output_path ELSE NULL,
     quality_score |-> IF outcome \in {"complete", "skip", "quality_error"}
                       THEN "measured" ELSE NULL,
     missing_data_pct |-> IF outcome \in {"complete", "skip", "quality_error"}
                          THEN "measured" ELSE NULL,
     saturation_pct |-> IF outcome = "complete" THEN "measured" ELSE NULL]

\* The arguments of the update_processing_status call process_file makes for
\* each way the transform ends. A measured quality value is "measured"; the
\* SKIPPED call passes no saturation_pct and no output_path, the two
\* PROCESSING_FAILED calls pass only the error message.
OutcomeStatus(outcome, output_path) ==
    CASE outcome = "complete" ->
            [status |-> "COMPLETE", msg |-> NULL, skip_reason |-> NULL,
             output_path |-> output_path, quality_score |-> "measured",
             missing_data_pct |-> "measured", saturation_pct |-> "measured"]
      [] outcome = "skip" ->
            [status |-> "SKIPPED", msg |-> NULL, skip_reason |-> "NIGHTTIME_IMAGE",
             output_path |-> NULL, quality_score |-> "measured",
             missing_data_pct |-> "measured", saturation_pct |-> NULL]
      [] outcome = "quality_error" ->
            [status |-> "SKIPPED", msg |-> NULL, skip_reason |-> "QUALITY_CHECK_ERROR",
             output_path |-> NULL, quality_score |-> "measured",
             missing_data_pct |-> "measured", saturation_pct |-> NULL]
      [] outcome = "soft_timeout" ->
            [status |-> "PROCESSING_FAILED", msg |-> "Processing timeout",
             skip_reason |-> NULL, output_path |-> NULL, quality_score |-> NULL,
             missing_data_pct |-> NULL, saturation_pct |-> NULL]
      [] outcome = "error" ->
            [status |-> "PROCESSING_FAILED", msg |-> "Processing error",
             skip_reason |-> NULL, output_path |-> NULL, quality_score |-> NULL,
             missing_data_pct |-> NULL, saturation_pct |-> NULL]

\* The rest of process_file: the transform ends in COMPLETE, SKIPPED or an
\* exception; the COMPLETE branch writes the output file first; each branch
\* writes its status and then calls cleanup_file on the raw directory. Loading
\* succeeds only on a completely downloaded directory. A status write that
\* fails (dbOk = FALSE) is swallowed by update_processing_status and the
\* branch goes on to cleanup_file.
ProcessFinishDb(file_id, outcome, dbOk) ==
    LET u == OutcomeStatus(outcome, generate_output_path(file_id)) IN
    /\ prRunning[file_id] > 0
    /\ outcome \in {"complete", "skip", "quality_error"} =>
            rawDisk[OutputDir(file_id)] = "complete"
    /\ outDisk' = IF outcome = "complete"
                  THEN write_netcdf(outDisk, generate_output_path(file_id))
                  ELSE outDisk
    /\ manifest' = IF dbOk
                   THEN update_processing_status(manifest, file_id, u.status, NoAttempt,
                            u.msg, u.skip_reason, u.output_path, u.quality_score,
                            u.missing_data_pct, u.saturation_pct)
                   ELSE manifest
    /\ rawDisk' = cleanup_file(rawDisk, OutputDir(file_id))
    /\ transform' = [transform EXCEPT ![file_id] = outcome]
    /\ prRunning' = [prRunning EXCEPT ![file_id] = @ - 1]
    /\ prFinished' = [prFinished EXCEPT ![file_id] = @ + 1]
    /\ UNCHANGED <<poll, dl, prQueued, sensing,
                   now, min_age_hours, lookback_minutes, window,
                   inserted, dlEnqueued, prEnqueued, fetchFailed, crashes, rediscovered,
                   queryLog, cycles, lastCycle, aborted, raced, retry_countdown, lastFound, refound, sentPath, enqueued_count, enqueueError>>

ProcessFinish(file_id, outcome) == ProcessFinishDb(file_id, outcome, TRUE)

\* process_file returns and the worker acknowledges the message.
ProcessAck(file_id) ==
    /\ prFinished[file_id] > 0
    /\ prFinished' = [prFinished EXCEPT ![file_id] = @ - 1]
    /\ UNCHANGED <<manifest, poll, dl, prQueued, prRunning, rawDisk, sensing,
                   now, min_age_hours, lookback_minutes, window,
                   inserted, dlEnqueued, prEnqueued, fetchFailed, crashes, rediscovered, outDisk, transform,
                   queryLog, cycles, lastCycle, aborted, raced, retry_countdown, lastFound, refound, sentPath, enqueued_count, enqueueError>>

\* The worker child holding a process task is lost before the acknowledgement
\* (during the transform, or after it returned): the message is requeued.
ProcessWorkerLost(file_id) ==
    /\ crashes < MaxCrashes
    /\ \/ /\ prRunning[file_id] > 0
          /\ prRunning' = [prRunning EXCEPT ![file_id] = @ - 1]
          /\ UNCHANGED prFinished
       \/ /\ prFinished[file_id] > 0
          /\ prFinished' = [prFinished EXCEPT ![file_id] = @ - 1]
          /\ UNCHANGED prRunning
    /\ prQueued' = [prQueued EXCEPT ![file_id] = @ + 1]
    /\ crashes' = crashes + 1
    /\ UNCHANGED <<manifest, poll, dl, rawDisk, sensing,
                   now, min_age_hours, lookback_minutes, window,
                   inserted, dlEnqueued, prEnqueued, fetchFailed, rediscovered, outDisk, transform,
                   queryLog, cycles, lastCycle, aborted, raced, retry_countdown, lastFound, refound, sentPath, enqueued_count, enqueueError>>

\* ------------------------------------------------------- hard time limit

\* task_time_limit of the download worker: the pool kills the child that runs
\* the fetch. Nothing of download_file or of DownloadTask.on_failure runs any
\* more (the hook runs in the child), and the worker acknowledges the message
\* of a task that timed out.
DownloadHardTimeout(file_id) ==
    /\ dl[file_id].st = "fetching"
    /\ <<file_id, "download">> \notin aborted
    /\ aborted' = aborted \cup {<<file_id, "download">>}
    /\ dl' = [dl EXCEPT ![file_id].st = "none"]
    /\ UNCHANGED <<manifest, poll, prQueued, prRunning, prFinished, rawDisk, sensing,
                   now, min_age_hours, lookback_minutes, window,
                   inserted, dlEnqueued, prEnqueued, fetchFailed, crashes, rediscovered,
                   outDisk, transform, queryLog, cycles, lastCycle, raced, retry_countdown, lastFound, refound, sentPath, enqueued_count, enqueueError>>

\* task_time_limit of the process worker, likewise: neither an except branch
\* of process_file nor cleanup_file nor ProcessingTask.on_failure runs.
ProcessHardTimeout(file_id) ==
    /\ prRunning[file_id] > 0
    /\ <<file_id, "process">> \notin aborted
    /\ aborted' = aborted \cup {<<file_id, "process">>}
    /\ prRunning' = [prRunning EXCEPT ![file_id] = @ - 1]
    /\ UNCHANGED <<manifest, poll, dl, prQueued, prFinished, rawDisk, sensing,
                   now, min_age_hours, lookback_minutes, window,
                   inserted, dlEnqueued, prEnqueued, fetchFailed, crashes, rediscovered,
                   outDisk, transform, queryLog, cycles, lastCycle, raced, retry_countdown, lastFound, refound, sentPath, enqueued_count, enqueueError>>

\* ---------------------------------------------------------- specification

Zero == [f \in FileIds |-> 0]

InitServices ==
    /\ manifest = [f \in {} |-> NewRow]
    /\ poll = [p \in Pollers |-> [pc |-> "idle", pending |-> <<>>]]
    /\ dl = [f \in FileIds |-> [st |-> "none", retries |-> 0]]
    /\ prQueued = Zero
    /\ prRunning = Zero
    /\ prFinished = Zero
    /\ rawDisk = [d \in Timestamps |-> "absent"]
    /\ outDisk = [d \in Timestamps |-> "absent"]
    /\ transform = [f \in FileIds |-> "none"]
    /\ queryLog = <<>>
    /\ cycles = 0
    /\ lastCycle = "none"
    /\ aborted = {}
    /\ enqueueError = FALSE
    /\ enqueued_count = [p \in Pollers |-> 0]
    /\ sentPath = [f \in FileIds |-> NULL]
    /\ refound = {}
    /\ lastFound = 0
    /\ retry_countdown = Zero
    /\ raced = {}
    /\ window = <<>>
    /\ inserted = Zero
    /\ dlEnqueued = Zero
    /\ prEnqueued = Zero
    /\ fetchFailed = Zero
    /\ crashes = 0
    /\ rediscovered = {}

InitPipeline ==
    /\ InitServices
    /\ sensing = [f \in {"X1"} |-> "t0"]

\* The catalog holds the product X1; the scheduled poll and the manually
\* triggered poll run with the default window configuration at 10:00.
Init ==
    /\ InitPipeline
    /\ now = 600
    /\ min_age_hours = DefaultMinAgeHours
    /\ lookback_minutes = DefaultLookbackMinutes

Next ==
    \/ \E p \in Pollers, answer \in SearchAnswers : PollQuery(p, TRUE, answer)
    \/ \E p \in Pollers : PollQuery(p, FALSE, <<>>)
    \/ \E p \in Pollers, dbOk \in BOOLEAN, sendOk \in BOOLEAN :
          PollEnqueue(p, dbOk, sendOk)
    \/ \E f \in FileIds : DownloadStart(f)
    \/ \E f \in FileIds : DownloadSucceed(f)
    \/ \E f \in FileIds : DownloadAck(f)
    \/ \E f \in FileIds : DownloadError(f)
    \/ \E f \in FileIds : DownloadSoftTimeout(f)
    \/ \E f \in FileIds : DownloadWorkerLost(f)
    \/ \E f \in FileIds : ProcessStart(f)
    \/ \E f \in FileIds, outcome \in Outcomes :
          ProcessFinish(f, outcome)
    \/ \E f \in FileIds : ProcessAck(f)
    \/ \E f \in FileIds : ProcessWorkerLost(f)

Spec == Init /\ [][Next]_vars

\* The steps of one poller, of the workers on one file_id without a worker
\* loss, and the worker losses on one file_id.
Discover(p) ==
    \/ \E answer \in SearchAnswers : PollQuery(p, TRUE, answer)
    \/ PollQuery(p, FALSE, <<>>)
    \/ \E dbOk \in BOOLEAN, sendOk \in BOOLEAN : PollEnqueue(p, dbOk, sendOk)

DownloadWork(f) ==
    \/ DownloadStart(f)
    \/ DownloadSucceed(f)
    \/ DownloadAck(f)
    \/ DownloadError(f)
    \/ DownloadSoftTimeout(f)

ProcessWork(f) ==
    \/ ProcessStart(f)
    \/ \E outcome \in Outcomes :
          ProcessFinish(f, outcome)
    \/ ProcessAck(f)

Work(f) == DownloadWork(f) \/ ProcessWork(f)

Lose(f) ==
    \/ DownloadWorkerLost(f)
    \/ ProcessWorkerLost(f)

\* The pipeline in which no worker is lost: both pollers and the workers.
NextNoLoss ==
    \/ \E p \in Pollers : Discover(p)
    \/ \E f \in FileIds : Work(f)

SpecNoLoss == Init /\ [][NextNoLoss]_vars

\* The pipeline in which the manifest database and the broker answer every
\* call of the pollers and no worker is lost: the interleavings of the
\* scheduled and the manual poll().
DiscoverOk(p) ==
    \/ \E answer \in SearchAnswers : PollQuery(p, TRUE, answer)
    \/ PollEnqueue(p, TRUE, TRUE)

NextRace ==
    \/ \E p \in Pollers : DiscoverOk(p)
    \/ \E f \in FileIds : Work(f)

SpecRace == Init /\ [][NextRace]_vars

\* A status write of a worker fails in the database.
StatusWriteFails(f) ==
    \/ DownloadStartDb(f, FALSE)
    \/ DownloadSucceedDb(f, FALSE)
    \/ ProcessStartDb(f, FALSE)
    \/ \E outcome \in Outcomes :
          ProcessFinishDb(f, outcome, FALSE)

\* The pipeline without worker losses, in which the status writes of the
\* workers may fail.
NextDbFails ==
    \/ \E p \in Pollers : Discover(p)
    \/ \E f \in FileIds : Work(f)
    \/ \E f \in FileIds : StatusWriteFails(f)

SpecDbFails == Init /\ [][NextDbFails]_vars

Abort(f) ==
    \/ DownloadHardTimeout(f)
    \/ ProcessHardTimeout(f)

\* The pipeline without worker losses, in which a task may run into its hard
\* time limit.
NextHardLimit ==
    \/ \E p \in Pollers : Discover(p)
    \/ \E f \in FileIds : Work(f)
    \/ \E f \in FileIds : Abort(f)

SpecHardLimit == Init /\ [][NextHardLimit]_vars

\* Scheduling: a worker of each queue takes any message that waits (a delayed
\* retry once its countdown has passed), every fetch and transform returns or
\* hits its time limit, and a poller that started its enqueue loop finishes it.
FairWorkers ==
    \A f \in FileIds : WF_vars(DownloadWork(f)) /\ WF_vars(ProcessWork(f))

FairPollers ==
    \A p \in Pollers : WF_vars(Discover(p))

\* The pipeline without worker losses under fair scheduling.
SpecLive == Init /\ [][NextNoLoss]_vars /\ FairWorkers /\ FairPollers

\* A download in progress: X1 was inserted and its download task runs its
\* attempt number retries + 1 (the earlier attempts having failed), with the
\* output directory either present or removed under the running fetch.
InitAttempt ==
    /\ \E r \in 0..MaxRetries :
          /\ manifest = [f \in {"X1"} |->
                           [NewRow EXCEPT !.status = "DOWNLOADING",
                                          !.download_attempt = r + 1]]
          /\ dl = [f \in FileIds |-> IF f = "X1" THEN [st |-> "fetching", retries |-> r]
                                                ELSE [st |-> "none", retries |-> 0]]
          /\ fetchFailed = [f \in FileIds |-> IF f = "X1" THEN r ELSE 0]
    /\ \E d \in {"absent", "partial"} :
          rawDisk = [t \in Timestamps |-> IF t = "t0" THEN d ELSE "absent"]
    /\ poll = [p \in Pollers |-> [pc |-> "idle", pending |-> <<>>]]
    /\ sensing = [f \in {"X1"} |-> "t0"]
    /\ inserted = [f \in FileIds |-> IF f = "X1" THEN 1 ELSE 0]
    /\ dlEnqueued = [f \in FileIds |-> IF f = "X1" THEN 1 ELSE 0]
    /\ prQueued = Zero
    /\ prRunning = Zero
    /\ prFinished = Zero
    /\ prEnqueued = Zero
    /\ outDisk = [d \in Timestamps |-> "absent"]
    /\ transform = [f \in FileIds |-> "none"]
    /\ window = <<>>
    /\ crashes = 0
    /\ rediscovered = {}
    /\ queryLog = <<>>
    /\ cycles = 0
    /\ lastCycle = "none"
    /\ aborted = {}
    /\ enqueueError = FALSE
    /\ enqueued_count = [p \in Pollers |-> 0]
    /\ sentPath = [f \in FileIds |-> NULL]
    /\ refound = {}
    /\ lastFound = 0
    /\ retry_countdown = Zero
    /\ raced = {}
    /\ now = 600
    /\ min_age_hours = DefaultMinAgeHours
    /\ lookback_minutes = DefaultLookbackMinutes

\* The workers alone, with worker losses.
NextAttempt ==
    \/ \E f \in FileIds : Work(f)
    \/ \E f \in FileIds : Lose(f)

SpecAttempt == InitAttempt /\ [][NextAttempt]_vars

SpecAttemptFair == InitAttempt /\ [][NextAttempt]_vars /\ FairWorkers

\* The catalog holds two products, X1 and X2, with any nominal timestamps (the
\* same one or different ones); the scheduler's poller feeds the workers and no
\* worker is lost.
InitTwoFiles ==
    /\ InitServices
    /\ sensing \in [FileIds -> Timestamps]
    /\ now = 600
    /\ min_age_hours = DefaultMinAgeHours
    /\ lookback_minutes = DefaultLookbackMinutes

NextTwoFiles ==
    \/ Discover("scheduled")
    \/ \E f \in FileIds : Work(f)

SpecTwoFiles == InitTwoFiles /\ [][NextTwoFiles]_vars

\* Two records side by side: X1 and X2, of different nominal timestamps, were
\* inserted and their download tasks wait in the queue; the workers run, no
\* worker is lost.
InitTwoRecords ==
    /\ manifest = [f \in FileIds |-> NewRow]
    /\ dl = [f \in FileIds |-> [st |-> "queued", retries |-> 0]]
    /\ sensing = [f \in FileIds |-> IF f = "X1" THEN "t0" ELSE "t1"]
    /\ inserted = [f \in FileIds |-> 1]
    /\ dlEnqueued = [f \in FileIds |-> 1]
    /\ poll = [p \in Pollers |-> [pc |-> "idle", pending |-> <<>>]]
    /\ rawDisk = [t \in Timestamps |-> "absent"]
    /\ outDisk = [t \in Timestamps |-> "absent"]
    /\ fetchFailed = Zero
    /\ prQueued = Zero
    /\ prRunning = Zero
    /\ prFinished = Zero
    /\ prEnqueued = Zero
    /\ retry_countdown = Zero
    /\ transform = [f \in FileIds |-> "none"]
    /\ window = <<>>
    /\ crashes = 0
    /\ rediscovered = {}
    /\ queryLog = <<>>
    /\ cycles = 0
    /\ lastCycle = "none"
    /\ lastFound = 0
    /\ aborted = {}
    /\ enqueueError = FALSE
    /\ enqueued_count = [p \in Pollers |-> 0]
    /\ sentPath = [f \in FileIds |-> NULL]
    /\ refound = {}
    /\ raced = {}
    /\ now = 600
    /\ min_age_hours = DefaultMinAgeHours
    /\ lookback_minutes = DefaultLookbackMinutes

NextTwoRecords == \E f \in FileIds : Work(f)

SpecTwoRecords == InitTwoRecords /\ [][NextTwoRecords]_vars

\* The pollers alone, on a catalog of two products of different timestamps;
\* inserts and sends may fail.
InitCycle ==
    /\ InitServices
    /\ sensing = [f \in FileIds |-> IF f = "X1" THEN "t0" ELSE "t1"]
    /\ now = 600
    /\ min_age_hours = DefaultMinAgeHours
    /\ lookback_minutes = DefaultLookbackMinutes

NextCycle == \E p \in Pollers : Discover(p)

SpecCycle == InitCycle /\ [][NextCycle]_vars

\* The window specification: any clock value and window configuration, cycles
\* whose search finds nothing or fails, and the clock advancing between cycles.
InitWindow ==
    /\ InitPipeline
    /\ now \in {15 * q : q \in 0..MaxNowQuarters}
    /\ min_age_hours \in 0..MaxMinAgeHours
    /\ lookback_minutes \in {15 * q : q \in 0..MaxLookbackQuarters}

ClockTick ==
    /\ now < 15 * MaxNowQuarters
    /\ now' = now + 15
    /\ UNCHANGED <<manifest, poll, dl, prQueued, prRunning, prFinished, rawDisk,
                   sensing, min_age_hours, lookback_minutes, window,
                   inserted, dlEnqueued, prEnqueued, fetchFailed, crashes, rediscovered, outDisk, transform,
                   queryLog, cycles, lastCycle, aborted, raced, retry_countdown, lastFound, refound, sentPath, enqueued_count, enqueueError>>

NextWindow ==
    \/ \E p \in Pollers, searchOk \in BOOLEAN : PollQuery(p, searchOk, <<>>)
    \/ ClockTick

SpecWindow == InitWindow /\ [][NextWindow]_vars

\* ------------------------------------------------------------ properties

Status(f) == manifest[f].status

\* C1: over any sequence of discovery cycles, however often a file_id reappears
\* in the search results, log_new_file creates at most one row for it, the row
\* is created with status QUEUED, a file_id has a row exactly when one was
\* created, and the poller sends at most one download task for it.
C1_DedupOneRecordOneTask ==
    [][\A f \in FileIds :
          /\ inserted'[f] <= 1
          /\ dlEnqueued'[f] <= 1
          /\ (f \in DOMAIN manifest') <=> (inserted'[f] = 1)
          /\ inserted'[f] # inserted[f] => manifest'[f].status = "QUEUED"]_vars

\* C1 witness: X1 was found again after its row existed, and still has one row
\* and one download task sent.
C1_Witness ==
    /\ "X1" \in rediscovered
    /\ inserted["X1"] = 1
    /\ dlEnqueued["X1"] = 1

\* C2: once a record's status is COMPLETE, SKIPPED, FAILED or PROCESSING_FAILED,
\* no later step (a redelivered task included) changes it.
C2_TerminalIsFinal ==
    [][\A f \in DOMAIN manifest :
          Status(f) \in Terminal => manifest'[f].status = Status(f)]_vars

\* The edges of the status graph; FAILED is entered from DOWNLOADING or RETRY
\* only when the row's download_attempt has reached the attempt limit.
StatusEdges ==
    {<<"QUEUED", "DOWNLOADING">>, <<"DOWNLOADING", "DOWNLOADED">>,
     <<"DOWNLOADED", "PROCESSING">>, <<"PROCESSING", "COMPLETE">>,
     <<"PROCESSING", "SKIPPED">>, <<"PROCESSING", "PROCESSING_FAILED">>,
     <<"DOWNLOADING", "RETRY">>, <<"RETRY", "DOWNLOADING">>}

\* C3: every change of a record's status follows an edge of the status graph,
\* the move to FAILED being taken only once the download attempts are exhausted.
C3_ValidTransitions ==
    [][\A f \in DOMAIN manifest :
          manifest'[f].status # Status(f) =>
             \/ <<Status(f), manifest'[f].status>> \in StatusEdges
             \/ /\ manifest'[f].status = "FAILED"
                /\ Status(f) \in {"DOWNLOADING", "RETRY"}
                /\ manifest'[f].download_attempt >= AttemptLimit]_vars

\* C4: a record whose downloads all failed is FAILED only after exactly
\* max_retries + 1 attempts.
C4_FailedAfterMaxRetriesPlusOne ==
    \A f \in DOMAIN manifest :
        (Status(f) = "FAILED" /\ prEnqueued[f] = 0) =>
            manifest[f].download_attempt = MaxRetries + 1

\* C5: a record in a terminal status has no raw directory on disk.
C5_TerminalRawAbsent ==
    \A f \in DOMAIN manifest :
        Status(f) \in Terminal => rawDisk[OutputDir(f)] = "absent"

\* Tasks of a file_id that are queued, waiting for their retry delay, or executing
\* (a task that has finished and only awaits its acknowledgement is not counted).
InFlight(f) ==
    (IF dl[f].st \in {"queued", "delayed", "fetching"} THEN 1 ELSE 0)
    + prQueued[f] + prRunning[f]

\* C6: each file_id has at most one task in flight at every moment.
C6_OneTaskInFlight == \A f \in FileIds : InFlight(f) <= 1

\* C7: at most one process task is ever enqueued for a file_id.
C7_AtMostOneProcessTask == \A f \in FileIds : prEnqueued[f] <= 1

\* C8: each search is called with dtstart = T - min_age - lookback and
\* dtend = T - min_age for the clock value T of the cycle; with min_age_hours = 1
\* and lookback_minutes = 30 that is <<T - 90, T - 60>>; dtend is never later
\* than T - min_age.
C8_WindowExact ==
    [][window' # window =>
          /\ window' = <<now - 60 * min_age_hours - lookback_minutes,
                         now - 60 * min_age_hours>>
          /\ (min_age_hours = 1 /\ lookback_minutes = 30)
                => window' = <<now - 90, now - 60>>
          /\ window'[2] + 60 * min_age_hours <= now]_vars

\* C8 witness: a search was made at the present clock value with min_age_hours = 1
\* and lookback_minutes = 30.
C8_Witness ==
    /\ min_age_hours = 1
    /\ lookback_minutes = 30
    /\ window = <<now - 90, now - 60>>

\* C9: a download task that has ended after k failed attempts, k below the
\* attempt limit, and without a lost worker, has ended in a successful download:
\* the record reached DOWNLOADED with download_attempt = k + 1.
C9_FailThenSucceed ==
    \A f \in DOMAIN manifest :
        (/\ dlEnqueued[f] = 1
         /\ dl[f].st = "none"
         /\ crashes = 0
         /\ fetchFailed[f] < AttemptLimit) =>
            /\ prEnqueued[f] = 1
            /\ Status(f) \notin {"QUEUED", "DOWNLOADING", "RETRY", "FAILED"}
            /\ manifest[f].download_attempt = fetchFailed[f] + 1

\* C10: a process task is sent only by a step that leaves the record DOWNLOADED,
\* and no process task exists for a record in QUEUED, DOWNLOADING, RETRY or FAILED.
C10_ProcessOnlyAfterDownloaded ==
    [][\A f \in DOMAIN manifest' :
          /\ prEnqueued'[f] > prEnqueued[f] => manifest'[f].status = "DOWNLOADED"
          /\ (prQueued'[f] + prRunning'[f] > 0) =>
                manifest'[f].status \notin {"QUEUED", "DOWNLOADING", "RETRY", "FAILED"}]_vars

\* A transform of file_id has just ended with one of the outcomes.
TransformEnded(f, outcomes) ==
    /\ prFinished'[f] = prFinished[f] + 1
    /\ transform'[f] \in outcomes

\* The step sends no download task and no process task, and requeues none.
NothingEnqueued ==
    /\ dlEnqueued' = dlEnqueued
    /\ prEnqueued' = prEnqueued
    /\ prQueued' = prQueued
    /\ dl' = dl

C15_OneLogRowPerCycle == Len(queryLog) = cycles

StatusIn(f, S) == f \in DOMAIN manifest /\ manifest[f].status \in S

\* The download task of file_id has been delivered and has not ended.
DownloadPending(f) == dl[f].st \in {"queued", "delayed", "fetching"}

\* C13: under fair scheduling and without worker losses, every record that
\* exists eventually is in COMPLETE, SKIPPED, FAILED or PROCESSING_FAILED.
C13_EveryRecordTerminates ==
    \A f \in FileIds :
        (f \in DOMAIN manifest) ~> StatusIn(f, Terminal)

\* C14: under fair scheduling a delivered download task always ends, leaving
\* the record DOWNLOADED or FAILED; the record never stays in DOWNLOADING or
\* RETRY; and the number of retries never exceeds max_retries.
C14_RetryLoopTerminates ==
    /\ \A f \in FileIds :
          DownloadPending(f) ~>
              (~DownloadPending(f) /\ StatusIn(f, {"DOWNLOADED", "FAILED"}))
    /\ \A f \in FileIds :
          StatusIn(f, {"DOWNLOADING", "RETRY"}) ~> ~StatusIn(f, {"DOWNLOADING", "RETRY"})
    /\ [](\A f \in FileIds : dl[f].retries <= MaxRetries)

\* The third attempt timed out and was retried, and the fourth one succeeded.
C14_Witness ==
    /\ manifest["X1"].status = "DOWNLOADED"
    /\ manifest["X1"].download_attempt = MaxRetries + 1
    /\ manifest["X1"].error_message = "Download timed out"
    /\ dl["X1"].st = "sent"

DownloadedOrLater == {"DOWNLOADED", "PROCESSING", "COMPLETE", "SKIPPED", "PROCESSING_FAILED"}

\* C18: raw_file_path of a record is set exactly when the record has reached
\* DOWNLOADED or a later status and its raw directory is still on disk.
C18_RawPathTracksArtifact ==
    \A f \in DOMAIN manifest :
        (manifest[f].raw_file_path # NULL) <=>
            (manifest[f].status \in DownloadedOrLater /\ rawDisk[OutputDir(f)] = "complete")

\* C19: two records with different file_id have different raw directories and
\* different output paths.
C19_DistinctPaths ==
    \A f, g \in DOMAIN manifest :
        f # g => /\ OutputDir(f) # OutputDir(g)
                 /\ generate_output_path(f) # generate_output_path(g)

\* C20: at every attempt number and for either state of the output directory,
\* the except SoftTimeLimitExceeded branch and the except Exception branch leave
\* the same status, the same disk and the same retry decision.
C20_SoftTimeoutAsTransient ==
    \A f \in DOMAIN manifest :
        dl[f].st = "fetching" =>
            LET e == ExceptException(manifest, rawDisk, f, dl[f].retries)
                t == ExceptSoftTimeLimit(manifest, rawDisk, f, dl[f].retries)
            IN  /\ e.m[f].status = t.m[f].status
                /\ e.disk = t.disk
                /\ e.task = t.task

\* C21: the step in which a download task is killed by the hard time limit
\* leaves the record FAILED, and the one in which a process task is killed
\* leaves it PROCESSING_FAILED, each with an error message and with the raw
\* directory of the record removed.
C21_HardLimitFailurePath ==
    [][\A f \in DOMAIN manifest :
          /\ (<<f, "download">> \in aborted' \ aborted) =>
                /\ manifest'[f].status = "FAILED"
                /\ manifest'[f].error_message # NULL
                /\ rawDisk'[OutputDir(f)] = "absent"
          /\ (<<f, "process">> \in aborted' \ aborted) =>
                /\ manifest'[f].status = "PROCESSING_FAILED"
                /\ manifest'[f].error_message # NULL
                /\ rawDisk'[OutputDir(f)] = "absent"]_vars

C23_FateExplained ==
    \A f \in DOMAIN manifest :
        /\ manifest[f].status \in {"FAILED", "PROCESSING_FAILED"} =>
                manifest[f].error_message # NULL
        /\ manifest[f].status = "SKIPPED" => manifest[f].skip_reason # NULL

\* A download that failed left FAILED with the message of its exception.
C23_Witness ==
    /\ StatusIn("X1", {"FAILED"})
    /\ manifest["X1"].error_message = "NameError"
    /\ dl["X1"].st = "none"

\* C24: when the scheduled and the manual poll() both hold the same file_id as
\* new, the insert that finds the row present creates nothing and sends
\* nothing, and once neither poll() holds the file_id any longer exactly one
\* insert created its row and exactly one download task was sent for it.
PendingSomewhere(f) ==
    \E p \in Pollers : \E k \in DOMAIN poll[p].pending : poll[p].pending[k] = f

C24_RaceOneInsertOneTask ==
    \A f \in raced :
        /\ inserted[f] <= 1
        /\ dlEnqueued[f] <= inserted[f]
        /\ ~PendingSomewhere(f) => inserted[f] = 1 /\ dlEnqueued[f] = 1

C24_Witness ==
    /\ "X1" \in raced
    /\ ~PendingSomewhere("X1")
    /\ \A p \in Pollers : poll[p].pc = "idle"
    /\ inserted["X1"] = 1
    /\ dlEnqueued["X1"] = 1

\* C25: every download task message belongs to a file_id that has a manifest
\* row, and a step sends a download task for a file_id only when that same
\* step's insert created the row: never on a conflict, never on a database
\* error.
C25_EnqueueOnlyAfterOwnInsert ==
    /\ [](\A f \in FileIds : dl[f].st # "none" => f \in DOMAIN manifest)
    /\ [][\A f \in FileIds :
             dlEnqueued'[f] # dlEnqueued[f] =>
                 /\ f \notin DOMAIN manifest
                 /\ f \in DOMAIN manifest'
                 /\ inserted'[f] = inserted[f] + 1
                 /\ dlEnqueued'[f] = dlEnqueued[f] + 1]_vars

\* A cycle found X1, its insert failed on a database error, and nothing was sent.
C25_Witness ==
    /\ lastCycle = "products"
    /\ \A p \in Pollers : poll[p].pc = "idle"
    /\ "X1" \notin DOMAIN manifest
    /\ inserted["X1"] = 0
    /\ dlEnqueued["X1"] = 0
    /\ dl["X1"].st = "none"

\* C26: while a download worker is in the fetch of a file_id the manifest
\* shows DOWNLOADING for it, and while a process worker is in the transform
\* the manifest shows PROCESSING, also after a failed status write.
C26_InProgressObservable ==
    \A f \in DOMAIN manifest :
        /\ dl[f].st = "fetching" => manifest[f].status = "DOWNLOADING"
        /\ prRunning[f] > 0 => manifest[f].status = "PROCESSING"

\* C27: while the manifest shows DOWNLOADED or PROCESSING for a record, its
\* raw directory is on disk, complete: no worker has deleted it.
C27_RawKeptUntilTerminal ==
    \A f \in DOMAIN manifest :
        manifest[f].status \in {"DOWNLOADED", "PROCESSING"} =>
            rawDisk[OutputDir(f)] = "complete"

\* C28: a record becomes SKIPPED only in a step in which the quality gate
\* decided to skip, and a transform that ends with an error, also one raised
\* inside the quality assessment, leaves the record PROCESSING_FAILED.
C28_SkippedOnlyByGate ==
    [][\A f \in DOMAIN manifest :
          /\ (manifest'[f].status = "SKIPPED" /\ manifest[f].status # "SKIPPED") =>
                TransformEnded(f, {"skip"})
          /\ TransformEnded(f, {"quality_error", "error", "soft_timeout"}) =>
                manifest'[f].status = "PROCESSING_FAILED"]_vars

C30_SuccessRowCounts ==
    (/\ cycles = 1
     /\ lastCycle = "products"
     /\ \A p \in Pollers : poll[p].pc = "idle") =>
        /\ Len(queryLog) = 1
        /\ queryLog[1].status = "SUCCESS"
        /\ queryLog[1].files_found = lastFound
        /\ queryLog[1].files_new = inserted["X1"] + inserted["X2"]

\* The columns, besides updated_at and the timestamp of the status, that the
\* caller of the status update supplies when it writes the status.
Supplied(status) ==
    CASE status = "DOWNLOADING" -> {"status", "download_attempt"}
      [] status = "DOWNLOADED" -> {"status", "raw_file_path"}
      [] status \in {"RETRY", "FAILED", "PROCESSING_FAILED"} -> {"status", "error_message"}
      [] status = "PROCESSING" -> {"status", "processing_attempt"}
      [] status = "SKIPPED" ->
            {"status", "skip_reason", "quality_score", "missing_data_pct"}
      [] status = "COMPLETE" ->
            {"status", "output_file_path", "quality_score", "missing_data_pct",
             "saturation_pct"}
      [] OTHER -> {"status"}

\* C31: a step that changes the record of a file_id changes no other record,
\* and in that record only the status and the columns the caller supplied
\* with it; every other column keeps the value stored earlier.
C31_StatusUpdateFrame ==
    [][\A f \in DOMAIN manifest :
          manifest'[f] # manifest[f] =>
              /\ \A g \in DOMAIN manifest \ {f} : manifest'[g] = manifest[g]
              /\ \A col \in DOMAIN NewRow \ Supplied(manifest'[f].status) :
                    manifest'[f][col] = manifest[f][col]]_vars

C31_Witness ==
    /\ manifest["X1"].status = "COMPLETE"
    /\ manifest["X1"].download_attempt = 1
    /\ manifest["X1"].processing_attempt = ProcessingAttempt
    /\ manifest["X1"].raw_file_path = OutputDir("X1")
    /\ manifest["X2"].status = "FAILED"
    /\ manifest["X2"].error_message = "NameError"
    /\ manifest["X2"].download_attempt = 1

\* C32: a step of a poller (its search and filter, or one insert-and-send of
\* its loop) leaves every record that exists before the step exactly as it
\* is, whatever its status, and sends or requeues no task for its file_id.
C32_RediscoveryNoOp ==
    [][(poll' # poll \/ cycles' # cycles) =>
          \A f \in DOMAIN manifest :
              /\ manifest'[f] = manifest[f]
              /\ inserted'[f] = inserted[f]
              /\ dlEnqueued'[f] = dlEnqueued[f]
              /\ dl'[f] = dl[f]
              /\ prQueued'[f] = prQueued[f]
              /\ prEnqueued'[f] = prEnqueued[f]]_vars

\* A search returned X1 while its record was FAILED; the record is still
\* FAILED, one row, one download task ever sent.
C32_Witness ==
    /\ <<"X1", "FAILED">> \in refound
    /\ manifest["X1"].status = "FAILED"
    /\ manifest["X1"].error_message = "NameError"
    /\ inserted["X1"] = 1
    /\ dlEnqueued["X1"] = 1
    /\ dl["X1"].st = "none"

\* C33: a record has an output path exactly when its status is COMPLETE, and
\* a COMPLETE record has its quality fields stored.
C33_OutputPathIffComplete ==
    \A f \in DOMAIN manifest :
        /\ (manifest[f].output_file_path # NULL) <=> (manifest[f].status = "COMPLETE")
        /\ manifest[f].status = "COMPLETE" =>
              /\ manifest[f].quality_score # NULL
              /\ manifest[f].missing_data_pct # NULL
              /\ manifest[f].saturation_pct # NULL

\* C34: in the step that sends a process task for a file_id, the file_path
\* the message carries is the raw path the manifest stores for that record
\* after the step.
C34_TaskCarriesStoredPath ==
    [][\A f \in DOMAIN manifest :
          prEnqueued'[f] # prEnqueued[f] =>
              /\ sentPath'[f] # NULL
              /\ sentPath'[f] = manifest'[f].raw_file_path]_vars

\* C35: an iteration of enqueue_downloads hands the remaining descriptors to
\* the next iteration whether or not it failed; an iteration that meets no
\* error and no existing row inserts its descriptor and sends its task,
\* whatever happened to the descriptors before it; the count the poller
\* keeps grows exactly when a download task is sent; and after the only
\* cycle so far the counts equal the number of download tasks sent.
C35_FailureDoesNotStopCycle ==
    /\ [][\A p \in Pollers :
             (poll[p].pc = "enqueue" /\ poll'[p] # poll[p]) =>
                LET f == Head(poll[p].pending) IN
                /\ poll'[p].pending = Tail(poll[p].pending)
                /\ poll'[p].pc = IF Tail(poll[p].pending) = <<>> THEN "idle" ELSE "enqueue"
                /\ enqueued_count'[p] - enqueued_count[p] = dlEnqueued'[f] - dlEnqueued[f]
                /\ \A g \in FileIds \ {f} : dlEnqueued'[g] = dlEnqueued[g]
                /\ (~enqueueError' /\ f \notin DOMAIN manifest) =>
                      /\ f \in DOMAIN manifest'
                      /\ dlEnqueued'[f] = dlEnqueued[f] + 1
                      /\ dl'[f].st = "queued"]_vars
    /\ []((cycles = 1 /\ \A p \in Pollers : poll[p].pc = "idle") =>
             enqueued_count["scheduled"] + enqueued_count["manual"]
                = dlEnqueued["X1"] + dlEnqueued["X2"])

\* One cycle found two products; the insert of one of them failed, the other
\* one was inserted and its task sent, and the count is 1.
C35_Witness ==
    /\ cycles = 1
    /\ lastFound = 2
    /\ \A p \in Pollers : poll[p].pc = "idle"
    /\ "X1" \notin DOMAIN manifest
    /\ "X2" \in DOMAIN manifest
    /\ dlEnqueued["X2"] = 1
    /\ dl["X2"].st = "queued"
    /\ enqueued_count["scheduled"] + enqueued_count["manual"] = 1

\* C36: no step removes a file_id from the manifest, and no step removes or
\* rewrites a row of the query log: the earlier log is a prefix of the later.
C36_AuditTrailOnlyGrows ==
    [][/\ DOMAIN manifest \subseteq DOMAIN manifest'
       /\ Len(queryLog') >= Len(queryLog)
       /\ \A i \in DOMAIN queryLog : queryLog'[i] = queryLog[i]]_vars

\* Two cycles wrote their rows, and X1, inserted by the first one, went
\* through the workers to a terminal status and still has its record.
C36_Witness ==
    /\ Len(queryLog) = 2
    /\ cycles = 2
    /\ "X1" \in DOMAIN manifest
    /\ manifest["X1"].status \in {"COMPLETE", "FAILED"}
    /\ prFinished["X1"] = 0
    /\ dl["X1"].st = "none"

====
